---- MODULE Spec2Model ----
(***************************************************************************)
(* State-machine model of the search-engine API in                         *)
(* Backend/search-engine-flask/index.py: the in-memory corpus word_list,   *)
(* the corpus file on disk, and one action per request handler.            *)
(*                                                                         *)
(* Text is modelled as a sequence of one-character strings, so that the    *)
(* tokenizer, ' '.join, str.lower, str.strip, the sentence split and the   *)
(* whole-word search are computed character by character as the code does. *)
(***************************************************************************)
EXTENDS Integers, Sequences, FiniteSets, TLC

VARIABLES
    word_list,      \* index.py:78   the global in-memory corpus (list of str)
    disk,           \* the text content of the file at CORPUS_FILE_PATH
    CONTEXT_SIZE,   \* index.py:10   the configured context radius
    request,        \* the request handled last: endpoint and its inputs
    response,       \* the response returned for it
    observed,       \* what happened inside the handler (see Observe)
    write_failures, \* how many file writes have failed so far
    threads         \* per-thread handler position, concurrent model only

vars == <<word_list, disk, CONTEXT_SIZE, request, response, observed,
         write_failures, threads>>

----------------------------------------------------------------------------
(* Bounds of the model *)

\* longest in-memory corpus the add handler is allowed to build
MaxCorpus == 3
\* most file writes that fail in one run
MaxWriteFailures == 1
\* longest corpus file text enumerated for the context-extraction model
MaxText == 4

----------------------------------------------------------------------------
(* Characters and Python string primitives *)

UpperCase == <<"A","B","C","D","E","F","G","H","I","J","K","L","M",
               "N","O","P","Q","R","S","T","U","V","W","X","Y","Z">>
LowerCase == <<"a","b","c","d","e","f","g","h","i","j","k","l","m",
               "n","o","p","q","r","s","t","u","v","w","x","y","z">>
Digits == {"0","1","2","3","4","5","6","7","8","9"}

Range(f) == {f[i] : i \in DOMAIN f}

\* regex class \w
WordChars == Range(UpperCase) \cup Range(LowerCase) \cup Digits \cup {"_"}
IsWordChar(c) == c \in WordChars

\* regex class \s, which is also what str.strip() removes
Whitespace == {" ", "\n", "\t"}

\* the punctuation the tokenizer keeps: [\.,!?;]
TokenMarks == {".", ",", "!", "?", ";"}

\* the marks of the sentence split's lookbehind: [.!?]
SentenceMarks == {".", "!", "?"}

\* str.lower() on one character
LowerOf == [c \in Range(UpperCase) |->
              LowerCase[CHOOSE i \in DOMAIN UpperCase : UpperCase[i] = c]]
LowerChar(c) == IF c \in DOMAIN LowerOf THEN LowerOf[c] ELSE c

\* str.lower()
lower(s) == [i \in DOMAIN s |-> LowerChar(s[i])]

RECURSIVE lstrip(_)
lstrip(s) == IF s # <<>> /\ Head(s) \in Whitespace THEN lstrip(Tail(s)) ELSE s

RECURSIVE rstrip(_)
rstrip(s) ==
    IF s # <<>> /\ s[Len(s)] \in Whitespace
    THEN rstrip(SubSeq(s, 1, Len(s) - 1))
    ELSE s

\* str.strip()
strip(s) == rstrip(lstrip(s))

\* str.replace("\n", " ")
replace_newlines(s) == [i \in DOMAIN s |-> IF s[i] = "\n" THEN " " ELSE s[i]]

\* Python slice s[a:b] for 0 <= a, b <= len(s)
Slice(s, a, b) == SubSeq(s, a + 1, b)

\* ' '.join(words)
RECURSIVE join(_)
join(words) ==
    IF words = <<>> THEN <<>>
    ELSE IF Len(words) = 1 THEN words[1]
    ELSE words[1] \o <<" ">> \o join(Tail(words))

\* Values a request parameter can take besides text.  None is an absent query
\* parameter or JSON field; JsonNumber is a JSON value that is not a string.
None == <<"None">>
JsonNumber == <<"int">>
IsStr(v) == v # None /\ v # JsonNumber

----------------------------------------------------------------------------
(* Tokenizer: re.findall(r'\b\w+\b|[\.,!?;]', corpus_text) *)

RECURSIVE WordRunEnd(_, _)
WordRunEnd(t, i) ==
    IF i < Len(t) /\ IsWordChar(t[i + 1]) THEN WordRunEnd(t, i + 1) ELSE i

RECURSIVE findall_tokens(_, _)
findall_tokens(t, i) ==
    IF i > Len(t) THEN <<>>
    ELSE IF IsWordChar(t[i])
         THEN LET e == WordRunEnd(t, i)
              IN  <<SubSeq(t, i, e)>> \o findall_tokens(t, e + 1)
    ELSE IF t[i] \in TokenMarks
         THEN <<<<t[i]>>>> \o findall_tokens(t, i + 1)
    ELSE findall_tokens(t, i + 1)

\* load_corpus on a file that exists and holds corpus_text
load_corpus(corpus_text) == findall_tokens(corpus_text, 1)

----------------------------------------------------------------------------
(* File write and save_corpus *)

\* file_operation(file_path, 'write', data): the outcomes of one call, given
\* the file's current content.  open() can raise FileNotFoundError (re-raised
\* to the caller, file untouched); any other error is logged and turned into
\* the return value "exception occurred", with the file untouched (open
\* failed) or already truncated by open(..., 'w') (write failed).
file_operation_write(data, current) ==
    { [disk |-> data,    ret |-> "write successful"],
      [disk |-> current, ret |-> "FileNotFoundError"],
      [disk |-> current, ret |-> "exception occurred"],
      [disk |-> <<>>,    ret |-> "exception occurred"] }

\* the outcomes the model lets happen: failures only while the budget lasts
WriteOutcomes(data, current) ==
    { o \in file_operation_write(data, current) :
        o.ret = "write successful" \/ write_failures < MaxWriteFailures }

\* 1 for a failed write, 0 otherwise
Failed(ret) == IF ret \in {"FileNotFoundError", "exception occurred"} THEN 1 ELSE 0

\* save_corpus(file_path, new_word_list): the return value of file_operation
\* is dropped; the function returns new_word_list unless FileNotFoundError
\* propagates.
save_corpus(new_word_list, current) ==
    { [disk   |-> o.disk,
       write  |-> o.ret,
       raised |-> o.ret = "FileNotFoundError",
       saved_word_list |-> IF o.ret = "FileNotFoundError" THEN None ELSE new_word_list]
      : o \in WriteOutcomes(join(new_word_list), current) }

----------------------------------------------------------------------------
(* Validation and error responses *)

\* validate_input_string: TRUE when it returns an error message, FALSE when
\* it returns None.
validate_input_string(input_value) ==
    \/ input_value = None
    \/ input_value = <<>>
    \/ ~IsStr(input_value)
    \/ strip(input_value) = <<>>

\* config.ERROR_MESSAGES: status code per error kind
ERROR_MESSAGES ==
    [ invalid_input       |-> 400,
      file_not_found      |-> 404,
      not_found_in_corpus |-> 404,
      internal_error      |-> 500 ]

\* handle_error(error_type)
handle_error(error_type) ==
    [status |-> ERROR_MESSAGES[error_type], kind |-> error_type,
     body |-> <<>>, count |-> 0]

\* jsonify(...), status
Reply(status, kind, body, count) ==
    [status |-> status, kind |-> kind, body |-> body, count |-> count]

----------------------------------------------------------------------------
(* Sentence split and context extraction: find_matching_sentences_for_word *)

RECURSIVE WhitespaceRunEnd(_, _)
WhitespaceRunEnd(t, i) ==
    IF i < Len(t) /\ t[i + 1] \in Whitespace THEN WhitespaceRunEnd(t, i + 1) ELSE i

\* re.split(r'(?<=[.!?])\s+', text): s is where the current piece starts,
\* i the scan position.  A maximal whitespace run that directly follows a
\* sentence mark is a separator and is in neither piece.
RECURSIVE split_sentences(_, _, _)
split_sentences(t, s, i) ==
    IF i > Len(t) THEN <<SubSeq(t, s, Len(t))>>
    ELSE IF t[i] \in Whitespace /\ i > 1 /\ t[i - 1] \in SentenceMarks
         THEN LET e == WhitespaceRunEnd(t, i)
              IN  <<SubSeq(t, s, i - 1)>> \o split_sentences(t, e + 1, e + 1)
    ELSE split_sentences(t, s, i + 1)

\* whether position k (1-based, may be out of range) holds a word character
WordAt(s, k) == k \in DOMAIN s /\ IsWordChar(s[k])

\* regex \b between positions k and k + 1
WordBoundary(s, k) == WordAt(s, k) # WordAt(s, k + 1)

\* the 1-based positions where needle occurs in hay as a substring
Occurrences(hay, needle) ==
    { i \in 1 .. (Len(hay) - Len(needle) + 1) :
        SubSeq(hay, i, i + Len(needle) - 1) = needle }

\* The request words are literal patterns (letters, digits, spaces) or hold
\* an unbalanced "(", for which re.search raises re.error.
re_error(input_word) ==
    "(" \in Range(input_word) /\ ")" \notin Range(input_word)

\* the 1-based positions where re.search(rf'\b{input_word}\b', sentence,
\* re.IGNORECASE) can match, for a literal input_word
WholeWordMatches(input_word, sentence) ==
    { i \in Occurrences(lower(sentence), lower(input_word)) :
        /\ WordBoundary(sentence, i - 1)
        /\ WordBoundary(sentence, i + Len(input_word) - 1) }

re_search(input_word, sentence) == WholeWordMatches(input_word, sentence) # {}

Min(S) == CHOOSE x \in S : \A y \in S : x <= y
Max2(a, b) == IF a >= b THEN a ELSE b
Min2(a, b) == IF a <= b THEN a ELSE b

\* sentence.lower().index(input_word.lower()): 0-based offset of the first
\* substring occurrence (one exists whenever re_search matched)
match_index(input_word, sentence) ==
    Min(Occurrences(lower(sentence), lower(input_word))) - 1

\* the window's end computed without the length of the word
context_of_short(input_word, sentence, radius) ==
    LET idx           == match_index(input_word, sentence)
        context_start == Max2(idx - radius, 0)
        context_end   == Min2(idx + radius, Len(sentence))
    IN  strip(replace_newlines(Slice(sentence, context_start, context_end)))

\* lines 101-105: the context of one matching sentence
context_of(input_word, sentence, radius) ==
    LET idx           == match_index(input_word, sentence)
        context_start == Max2(idx - radius, 0)
        context_end   == Min2(idx + Len(input_word) + radius, Len(sentence))
    IN  strip(replace_newlines(Slice(sentence, context_start, context_end)))

\* lines 99-106: the loop over the sentences
RECURSIVE matching_contexts(_, _, _)
matching_contexts(input_word, sentences, radius) ==
    IF sentences = <<>> THEN <<>>
    ELSE (IF re_search(input_word, Head(sentences))
          THEN <<context_of(input_word, Head(sentences), radius)>>
          ELSE <<>>)
         \o matching_contexts(input_word, Tail(sentences), radius)

\* the outcomes of reading the corpus file at line 93
ReadOutcomes == {"read ok", "read failed"}

\* find_matching_sentences_for_word(input_word) when open() ends as `read`:
\* the returned list, whether the file was opened, and the exception the
\* function swallowed ("none" when it ran to the end).
find_matching_sentences_for_word(input_word, read, hemingway, radius) ==
    IF validate_input_string(input_word)
    THEN [result |-> <<>>, executed |-> FALSE, fault |-> "ValueError"]
    ELSE IF read = "read failed"
    THEN [result |-> <<>>, executed |-> TRUE, fault |-> "OSError"]
    ELSE IF re_error(input_word)
    THEN [result |-> <<>>, executed |-> TRUE, fault |-> "re.error"]
    ELSE [result   |-> matching_contexts(input_word,
                                         split_sentences(hemingway, 1, 1), radius),
          executed |-> TRUE, fault |-> "none"]

\* str.split(','): the pieces between commas
RECURSIVE split_commas(_, _, _)
split_commas(t, s, i) ==
    IF i > Len(t) THEN <<SubSeq(t, s, Len(t))>>
    ELSE IF t[i] = ","
         THEN <<SubSeq(t, s, i - 1)>> \o split_commas(t, i + 1, i + 1)
    ELSE split_commas(t, s, i + 1)

\* similar_words.split(',')[:3]
first_three(param) ==
    LET words == split_commas(param, 1, 1)
    IN  SubSeq(words, 1, Min2(3, Len(words)))

----------------------------------------------------------------------------
(* The in-memory loops of the mutation handlers *)

\* a handler that refuses a word the corpus already holds
list_append_dedup(l, x) == IF x \in Range(l) THEN l ELSE Append(l, x)

\* line 240: word_list.append(new_word)
list_append(l, x) == Append(l, x)

\* list.remove(x): delete the first element equal to x
list_remove(l, x) ==
    LET i == Min({k \in DOMAIN l : l[k] = x})
    IN  SubSeq(l, 1, i - 1) \o SubSeq(l, i + 1, Len(l))

\* an `if` in place of the `while`: only the first occurrence goes
remove_loop_once(l, target_word, removed_count) ==
    IF \E k \in DOMAIN l : l[k] = target_word
    THEN [word_list |-> list_remove(l, target_word), removed_count |-> removed_count + 1]
    ELSE [word_list |-> l, removed_count |-> removed_count]

\* lines 273-278: while target_word in word_list: remove, count
RECURSIVE remove_loop(_, _, _)
remove_loop(l, target_word, removed_count) ==
    IF \E k \in DOMAIN l : l[k] = target_word
    THEN remove_loop(list_remove(l, target_word), target_word, removed_count + 1)
    ELSE [word_list |-> l, removed_count |-> removed_count]

\* the comparison without .lower(): a case-sensitive replace
RECURSIVE replace_loop_exact(_, _, _, _, _)
replace_loop_exact(l, old_word, new_word, index, replaced_count) ==
    IF index > Len(l)
    THEN [word_list |-> l, replaced_count |-> replaced_count]
    ELSE IF l[index] = old_word
         THEN replace_loop_exact([l EXCEPT ![index] = new_word], old_word, new_word,
                                 index + 1, replaced_count + 1)
    ELSE replace_loop_exact(l, old_word, new_word, index + 1, replaced_count)

\* lines 327-333: for index, word in enumerate(word_list)
RECURSIVE replace_loop(_, _, _, _, _)
replace_loop(l, old_word, new_word, index, replaced_count) ==
    IF index > Len(l)
    THEN [word_list |-> l, replaced_count |-> replaced_count]
    ELSE IF lower(l[index]) = lower(old_word)
         THEN replace_loop([l EXCEPT ![index] = new_word], old_word, new_word,
                           index + 1, replaced_count + 1)
    ELSE replace_loop(l, old_word, new_word, index + 1, replaced_count)

\* word2vec_utils.find_most_similar_words(query_word, custom_vocab, word_list):
\* the external similarity lookup.  It raises, or returns a ranked list of
\* words.
find_most_similar_words(query_word, corpus) ==
    { [raised |-> TRUE,  similar_words |-> <<>>],
      [raised |-> FALSE, similar_words |-> <<>>] }
    \cup { [raised |-> FALSE, similar_words |-> <<x>>] : x \in Range(corpus) }

----------------------------------------------------------------------------
(* Requests *)

\* words sent to the mutation endpoints
MutationWords ==
    { None, JsonNumber, <<>>, <<" ">>, <<"a">>, <<"A">>, <<"a", " ", "b">> }

\* words sent as query-string parameters: always text or absent
QueryWords == { None, <<>>, <<" ">>, <<"a">>, <<"b">> }

\* (old_word, new_word) pairs sent to /replace_word
ReplacePairs ==
    { << <<"a">>, <<"b">> >>, << <<"a">>, <<"a", " ", "b">> >>,
      << <<"b">>, <<"A">> >>,
      << None, <<"b">> >>, << <<" ">>, <<"b">> >>,
      << <<"a">>, None >>, << <<"a">>, <<>> >>, << <<"a">>, JsonNumber >> }

\* words sent to /find_matching_sentences
SearchWords == { None, <<>>, <<" ">>, <<"a">>, <<"b">>, <<"(">> }

\* values of the similar_words parameter of /find_similar_sentences
SimilarParams ==
    { None, <<>>, <<" ">>, <<"a">>, <<"a", ",", ",", "b">>,
      <<"b", ",", "a", ",", "b", ",", "a">> }

\* the corpus files the process is started on
InitialFiles == { <<>>, <<"A", ".", "\n", "b">> }

Request(endpoint, word, new_word) ==
    [endpoint |-> endpoint, word |-> word, new_word |-> new_word]

\* What the handler did: whether the required input passed validation,
\* whether the operation behind the endpoint was started, the exception (if
\* any) raised while handling, the outcome of the file write (if any), and
\* the corpus and file as they were when the request arrived.
Observe(valid, executed, fault, write) ==
    [valid |-> valid, executed |-> executed, fault |-> fault, write |-> write,
     pre_list |-> word_list, pre_disk |-> disk]

----------------------------------------------------------------------------
(* Request handlers, one request at a time *)

\* GET /similar_words?w=<query_word>
get_similar_words(query_word) ==
    /\ request' = Request("similar_words", query_word, None)
    /\ UNCHANGED <<word_list, disk, CONTEXT_SIZE, write_failures, threads>>
    /\ IF validate_input_string(query_word)
       THEN /\ response' = handle_error("invalid_input")
            /\ observed' = Observe(FALSE, FALSE, "none", "none")
       ELSE \E o \in find_most_similar_words(query_word, word_list) :
              IF o.raised
              THEN /\ response' = handle_error("internal_error")
                   /\ observed' = Observe(TRUE, TRUE, "Exception", "none")
              ELSE /\ response' = Reply(200, "ok", o.similar_words, 0)
                   /\ observed' = Observe(TRUE, TRUE, "none", "none")

\* the calls of find_matching_sentences_for_word made for words[1..n], each
\* with its own read outcome
RECURSIVE similar_calls(_, _, _, _)
similar_calls(words, reads, hemingway, radius) ==
    IF words = <<>> THEN <<>>
    ELSE <<find_matching_sentences_for_word(Head(words), Head(reads), hemingway, radius)>>
         \o similar_calls(Tail(words), Tail(reads), hemingway, radius)

RECURSIVE extend_all(_)
extend_all(calls) ==
    IF calls = <<>> THEN <<>> ELSE Head(calls).result \o extend_all(Tail(calls))

\* the first exception swallowed after the file was opened, "none" if none
first_fault(calls) ==
    LET bad == {k \in DOMAIN calls : calls[k].executed /\ calls[k].fault # "none"}
    IN  IF bad = {} THEN "none" ELSE calls[Min(bad)].fault

\* GET /find_similar_sentences?similar_words=<param>
find_similar_sentences(param) ==
    /\ request' = Request("find_similar_sentences", param, None)
    /\ UNCHANGED <<word_list, disk, CONTEXT_SIZE, write_failures, threads>>
    /\ IF param = None
       THEN \* None.split raises AttributeError
            /\ response' = handle_error("internal_error")
            /\ observed' = Observe(FALSE, FALSE, "AttributeError", "none")
       ELSE LET similar_words == first_three(param)
            IN  \E reads \in [DOMAIN similar_words -> ReadOutcomes] :
                  LET calls == similar_calls(similar_words, reads, disk, CONTEXT_SIZE)
                  IN  /\ response' = Reply(200, "ok", extend_all(calls), 0)
                      /\ observed' = Observe(~validate_input_string(param),
                                             \E k \in DOMAIN calls : calls[k].executed,
                                             first_fault(calls), "none")

\* GET /find_matching_sentences?input=<input_word>
find_matching_sentences(input_word) ==
    /\ request' = Request("find_matching_sentences", input_word, None)
    /\ UNCHANGED <<word_list, disk, CONTEXT_SIZE, write_failures, threads>>
    /\ \E read \in ReadOutcomes :
         LET call == find_matching_sentences_for_word(input_word, read, disk, CONTEXT_SIZE)
         IN  /\ response' = Reply(200, "ok", call.result, 0)
             /\ observed' = Observe(~validate_input_string(input_word), call.executed,
                                    IF call.executed THEN call.fault ELSE "none", "none")

\* POST /add_word with JSON body {word: new_word}; has_json is FALSE when the
\* request carries no JSON object, so that data.get raises
add_word(has_json, new_word) ==
    /\ request' = Request("add_word", new_word, None)
    /\ UNCHANGED <<CONTEXT_SIZE, threads>>
    /\ IF ~has_json
       THEN /\ response' = handle_error("internal_error")
            /\ observed' = Observe(FALSE, FALSE, "AttributeError", "none")
            /\ UNCHANGED <<word_list, disk, write_failures>>
       ELSE IF new_word = None \/ validate_input_string(new_word)
       THEN /\ response' = handle_error("invalid_input")
            /\ observed' = Observe(FALSE, FALSE, "none", "none")
            /\ UNCHANGED <<word_list, disk, write_failures>>
       ELSE /\ Len(word_list) < MaxCorpus
            /\ \E o \in save_corpus(list_append(word_list, new_word), disk) :
                 /\ word_list' = list_append(word_list, new_word)
                 /\ disk' = o.disk
                 /\ write_failures' = write_failures + Failed(o.write)
                 /\ observed' = Observe(TRUE, TRUE,
                                        IF o.raised THEN "FileNotFoundError" ELSE "none",
                                        o.write)
                 /\ response' =
                      IF o.raised THEN handle_error("internal_error")
                      ELSE IF o.saved_word_list = None THEN handle_error("internal_error")
                      ELSE Reply(201, "created", <<new_word>>, 0)

\* DELETE /remove_similar_word?word=<target_word>
remove_similar_word(target_word) ==
    /\ request' = Request("remove_similar_word", target_word, None)
    /\ UNCHANGED <<CONTEXT_SIZE, threads>>
    /\ IF validate_input_string(target_word)
       THEN /\ response' = handle_error("invalid_input")
            /\ observed' = Observe(FALSE, FALSE, "none", "none")
            /\ UNCHANGED <<word_list, disk, write_failures>>
       ELSE LET r == remove_loop(word_list, target_word, 0)
            IN  IF r.removed_count > 0
                THEN \E o \in save_corpus(r.word_list, disk) :
                       /\ word_list' = r.word_list
                       /\ disk' = o.disk
                       /\ write_failures' = write_failures + Failed(o.write)
                       /\ observed' = Observe(TRUE, TRUE,
                                              IF o.raised THEN "FileNotFoundError" ELSE "none",
                                              o.write)
                       /\ response' =
                            IF o.raised THEN handle_error("internal_error")
                            ELSE IF o.saved_word_list = None THEN handle_error("internal_error")
                            ELSE Reply(200, "ok", <<target_word>>, r.removed_count)
                ELSE /\ response' = Reply(404, "not_found", <<target_word>>, 0)
                     /\ observed' = Observe(TRUE, TRUE, "none", "none")
                     /\ UNCHANGED <<word_list, disk, write_failures>>

\* PUT /replace_word with JSON body {old_word, new_word}
replace_word(old_word, new_word) ==
    /\ request' = Request("replace_word", old_word, new_word)
    /\ UNCHANGED <<CONTEXT_SIZE, threads>>
    /\ IF validate_input_string(old_word) \/ validate_input_string(new_word)
       THEN /\ response' = handle_error("invalid_input")
            /\ observed' = Observe(FALSE, FALSE, "none", "none")
            /\ UNCHANGED <<word_list, disk, write_failures>>
       ELSE LET r == replace_loop(word_list, old_word, new_word, 1, 0)
            IN  \E o \in save_corpus(r.word_list, disk) :
                  /\ word_list' = r.word_list
                  /\ disk' = o.disk
                  /\ write_failures' = write_failures + Failed(o.write)
                  /\ observed' = Observe(TRUE, TRUE,
                                         IF o.raised THEN "FileNotFoundError" ELSE "none",
                                         o.write)
                  /\ response' =
                       IF o.raised THEN handle_error("internal_error")
                       ELSE IF r.replaced_count > 0
                       THEN Reply(200, "ok", <<old_word, new_word>>, r.replaced_count)
                       ELSE handle_error("not_found_in_corpus")

\* GET /get_corpus
get_corpus ==
    /\ request' = Request("get_corpus", None, None)
    /\ response' = Reply(200, "ok", word_list, 0)
    /\ observed' = Observe(TRUE, TRUE, "none", "none")
    /\ UNCHANGED <<word_list, disk, CONTEXT_SIZE, write_failures, threads>>

----------------------------------------------------------------------------
(* The sequential specification: the process is started on a corpus file,  *)
(* then handles requests one at a time.                                    *)

NoRequest == Request("none", None, None)

NothingObserved ==
    [valid |-> TRUE, executed |-> FALSE, fault |-> "none", write |-> "none",
     pre_list |-> <<>>, pre_disk |-> <<>>]

Init ==
    /\ disk \in InitialFiles
    /\ word_list = load_corpus(disk)
    /\ CONTEXT_SIZE = 1
    /\ request = NoRequest
    /\ response = Reply(0, "none", <<>>, 0)
    /\ observed = NothingObserved
    /\ write_failures = 0
    /\ threads = <<>>

\* the server is between two requests
Ready == request = NoRequest

\* the response has been sent and the request context is dropped
teardown_request ==
    /\ request' = NoRequest
    /\ response' = Reply(0, "none", <<>>, 0)
    /\ observed' = NothingObserved
    /\ UNCHANGED <<word_list, disk, CONTEXT_SIZE, write_failures, threads>>

Next ==
    \/ Ready /\ \E w \in QueryWords : get_similar_words(w)
    \/ Ready /\ \E p \in SimilarParams : find_similar_sentences(p)
    \/ Ready /\ \E w \in SearchWords : find_matching_sentences(w)
    \/ Ready /\ \E w \in MutationWords : add_word(TRUE, w)
    \/ Ready /\ add_word(FALSE, None)
    \/ Ready /\ \E w \in QueryWords : remove_similar_word(w)
    \/ Ready /\ \E pair \in ReplacePairs : replace_word(pair[1], pair[2])
    \/ Ready /\ get_corpus
    \/ ~Ready /\ teardown_request

Spec == Init /\ [][Next]_vars

----------------------------------------------------------------------------
(* Properties of the sequential specification *)

MutationEndpoints == {"add_word", "remove_similar_word", "replace_word"}

WordEndpoints ==
    MutationEndpoints
    \cup {"similar_words", "find_matching_sentences", "find_similar_sentences"}

\* the response is one of the handlers' success responses
Success == response.status \in {200, 201}

\* the file write of the request failed
SaveFailed == observed.write \in {"FileNotFoundError", "exception occurred"}

\* the required input of the request is missing, empty, blank or no string
RequiredInputInvalid ==
    \/ validate_input_string(request.word)
    \/ request.endpoint = "replace_word" /\ validate_input_string(request.new_word)

\* number of elements of l equal to x
Count(l, x) == Cardinality({k \in DOMAIN l : l[k] = x})

\* number of elements of l equal to x when case is ignored
CountIgnoreCase(l, x) == Cardinality({k \in DOMAIN l : lower(l[k]) = lower(x)})

\* C1: after every mutation request, a success response (201 for add, 200
\* for remove and replace) implies that the corpus file equals the
\* single-space join of the in-memory corpus, and a failed save implies an
\* internal_error response.
C1_SuccessMeansSaved ==
    request.endpoint \in MutationEndpoints =>
        /\ Success => disk = join(word_list)
        /\ SaveFailed => response.kind = "internal_error"

\* C2: on every endpoint that requires a word, a missing, empty or
\* whitespace-only input gets the invalid_input response and the operation
\* behind the endpoint is not executed.
C2_InvalidInputRejected ==
    request.endpoint \in WordEndpoints /\ RequiredInputInvalid =>
        /\ response.kind = "invalid_input"
        /\ ~observed.executed

\* C3: when validation passed and the operation then failed (an exception, or
\* a failed file write), the response is internal_error with status 500.
C3_FailureIsInternalError ==
    /\ request.endpoint \in WordEndpoints
    /\ ~RequiredInputInvalid
    /\ (observed.fault # "none" \/ SaveFailed)
    => response.kind = "internal_error"

\* C4: remove_similar_word(w) with a valid w leaves exactly the tokens of the
\* previous corpus that differ from w, in their order; a reported count is
\* the number of occurrences of w; when w does not occur the response is 404
\* and neither the corpus nor the file changes and nothing is written.
C4_RemoveAll ==
    request.endpoint = "remove_similar_word" /\ ~RequiredInputInvalid =>
        LET C == observed.pre_list
            w == request.word
        IN  /\ word_list = SelectSeq(C, LAMBDA x : x # w)
            /\ response.status = 200 => response.count = Count(C, w)
            /\ Count(C, w) > 0 => response.status \in {200, 500}
            /\ Count(C, w) = 0 =>
                 /\ response.status = 404
                 /\ word_list = C
                 /\ disk = observed.pre_disk
                 /\ observed.write = "none"

\* a remove that deleted two occurrences and kept another token
C4_Witness ==
    /\ request.endpoint = "remove_similar_word"
    /\ response.status = 200
    /\ response.count = 2
    /\ Len(word_list) >= 1

\* the in-memory effect of replace_word on corpus C, position by position
Replaced(C, old_word, new_word) ==
    [i \in DOMAIN C |-> IF lower(C[i]) = lower(old_word) THEN new_word ELSE C[i]]

\* C5 as stated: replace_word(old, new) with valid inputs keeps the length,
\* puts new at every position matching old case-insensitively, leaves the
\* others, reports the number of such positions; when that number is zero
\* the response is not_found_in_corpus and the corpus is unchanged.
C5_ReplaceAll_AsStated ==
    request.endpoint = "replace_word" /\ ~RequiredInputInvalid =>
        LET C == observed.pre_list
            n == CountIgnoreCase(C, request.word)
        IN  /\ Len(word_list) = Len(C)
            /\ word_list = Replaced(C, request.word, request.new_word)
            /\ response.status = 200 => response.count = n
            /\ n = 0 => response.kind = "not_found_in_corpus" /\ word_list = C

\* C5 (amended): as above, except that the handler saves the corpus even when
\* nothing was replaced, so with zero matches the response is
\* not_found_in_corpus when the save does not raise and internal_error when
\* it raises; with matches it is 200 with the count, or internal_error when
\* the save raises.
C5_ReplaceAll ==
    request.endpoint = "replace_word" /\ ~RequiredInputInvalid =>
        LET C == observed.pre_list
            n == CountIgnoreCase(C, request.word)
        IN  /\ Len(word_list) = Len(C)
            /\ word_list = Replaced(C, request.word, request.new_word)
            /\ n = 0 => word_list = C
            /\ observed.write # "none"
            /\ response.kind =
                 IF observed.write = "FileNotFoundError" THEN "internal_error"
                 ELSE IF n > 0 THEN "ok" ELSE "not_found_in_corpus"
            /\ response.status = 200 => response.count = n /\ n > 0

\* a replace that hit two positions, one of them spelled in another case,
\* and left a third position alone
C5_Witness ==
    /\ request.endpoint = "replace_word"
    /\ response.status = 200
    /\ response.count = 2
    /\ \E i \in DOMAIN observed.pre_list :
         /\ observed.pre_list[i] # request.word
         /\ lower(observed.pre_list[i]) = lower(request.word)
    /\ \E i \in DOMAIN observed.pre_list : word_list[i] = observed.pre_list[i]

\* C6: a successful add_word(w) makes the corpus the previous corpus followed
\* by w, whether or not w was already present, and get_corpus returns the
\* in-memory corpus as it is, so the get_corpus that follows shows w last
\* after the previous tokens.
C6_AddAppends ==
    /\ request.endpoint = "add_word" /\ response.status = 201 =>
         /\ word_list = observed.pre_list \o <<request.word>>
         /\ word_list[Len(word_list)] = request.word
    /\ request.endpoint = "get_corpus" =>
         /\ response.status = 200
         /\ response.body = word_list
         /\ word_list = observed.pre_list

\* a successful add of a word the corpus already held
C6_Witness ==
    /\ request.endpoint = "add_word"
    /\ response.status = 201
    /\ request.word \in Range(observed.pre_list)

\* C9: after a successful add_word or replace_word whose file write
\* succeeded, tokenizing the file as load_corpus does gives back the
\* in-memory corpus.
C9_RoundTrip ==
    /\ request.endpoint \in {"add_word", "replace_word"}
    /\ Success
    /\ observed.write = "write successful"
    => load_corpus(disk) = word_list

----------------------------------------------------------------------------
(* The context-extraction specification: the process is started on any     *)
(* short corpus file (or on the sentence of the documented example), with  *)
(* any of a few radii configured, and serves sentence searches.            *)

ContextAlphabet == {"a", "A", "b", " ", ".", "\n"}

\* all texts over ContextAlphabet of length at most n
RECURSIVE TextsUpTo(_)
TextsUpTo(n) ==
    IF n = 0 THEN {<<>>}
    ELSE LET shorter == TextsUpTo(n - 1)
         IN  shorter \cup {Append(t, c) : t \in shorter, c \in ContextAlphabet}

ExampleSentence ==
    <<"T","h","e"," ","q","u","i","c","k"," ","f","o","x"," ",
      "j","u","m","p","s",".">>
ExampleWord == <<"f","o","x">>

ContextFiles == TextsUpTo(MaxText) \cup {ExampleSentence}

\* the configured radii tried
Radii == {0, 1, 5}

\* words searched for
ContextWords == { None, <<" ">>, <<"a">>, <<"a", "b">>, ExampleWord, <<"(">> }

InitContext ==
    /\ disk \in ContextFiles
    /\ word_list = load_corpus(disk)
    /\ CONTEXT_SIZE \in Radii
    /\ request = NoRequest
    /\ response = Reply(0, "none", <<>>, 0)
    /\ observed = NothingObserved
    /\ write_failures = 0
    /\ threads = <<>>

NextContext ==
    \/ Ready /\ \E w \in ContextWords : find_matching_sentences(w)
    \/ ~Ready /\ teardown_request

SpecContext == InitContext /\ [][NextContext]_vars

\* a sentence search that read the file and ran to the end
Searched ==
    /\ request.endpoint = "find_matching_sentences"
    /\ ~RequiredInputInvalid
    /\ observed.executed
    /\ observed.fault = "none"

\* text without its leading and trailing whitespace
Trimmed(t) ==
    LET solid == {i \in DOMAIN t : t[i] \notin Whitespace}
    IN  IF solid = {} THEN <<>>
        ELSE SubSeq(t, CHOOSE i \in solid : \A j \in solid : i <= j,
                       CHOOSE i \in solid : \A j \in solid : i >= j)

\* The window the documentation describes: the characters of the sentence
\* from max(0, idx - R) up to min(len, idx + len(word) + R), idx being the
\* 0-based offset of the first case-insensitive occurrence of the word;
\* newlines as spaces, trimmed.
Window(sentence, word, R) ==
    LET idx == CHOOSE i \in 0 .. Len(sentence) :
                 /\ i + 1 \in Occurrences(lower(sentence), lower(word))
                 /\ \A j \in 0 .. (i - 1) :
                      j + 1 \notin Occurrences(lower(sentence), lower(word))
        from == IF idx - R < 0 THEN 0 ELSE idx - R
        to   == IF idx + Len(word) + R > Len(sentence)
                THEN Len(sentence) ELSE idx + Len(word) + R
        cut  == [k \in 1 .. (to - from) |->
                   IF sentence[from + k] = "\n" THEN " " ELSE sentence[from + k]]
    IN  Trimmed(cut)

\* the sentences of the file in which the word is found, in order
MatchingSentences ==
    SelectSeq(split_sentences(disk, 1, 1), LAMBDA s : re_search(request.word, s))

\* every returned context is the documented window of its sentence
WindowsReturned ==
    Searched =>
        /\ Len(response.body) = Len(MatchingSentences)
        /\ \A k \in DOMAIN response.body :
             response.body[k] = Window(MatchingSentences[k], request.word, CONTEXT_SIZE)

\* the documented example: "The quick fox jumps.", word "fox", radius 5
ExampleSearched ==
    /\ Searched
    /\ disk = ExampleSentence
    /\ request.word = ExampleWord
    /\ CONTEXT_SIZE = 5

\* C7 as stated: every context is the window max(0, idx-R) .. min(len,
\* idx+len(word)+R) of its sentence, newlines as spaces, trimmed, and the
\* example yields "quick fox jump".
C7_ContextWindow_AsStated ==
    /\ WindowsReturned
    /\ ExampleSearched =>
         response.body = << <<"q","u","i","c","k"," ","f","o","x"," ","j","u","m","p">> >>

\* C7 (amended): the same window, and the example yields "uick fox jump":
\* idx = 10, so the window starts at offset 5, the "u" of "quick".
C7_ContextWindow ==
    /\ WindowsReturned
    /\ ExampleSearched =>
         response.body = << <<"u","i","c","k"," ","f","o","x"," ","j","u","m","p">> >>

\* the example searched: one context, cut on both sides of the word
C7_Witness ==
    /\ ExampleSearched
    /\ Len(response.body) = 1
    /\ Len(response.body[1]) < Len(ExampleSentence)
    /\ Len(response.body[1]) > Len(ExampleWord)

\* C10: every returned context contains a whole-word, case-insensitive
\* occurrence of the word, and the offset that places the window is the
\* offset of a whole-word match in the sentence.
C10_ContextHoldsWholeWord ==
    Searched =>
        /\ \A k \in DOMAIN response.body : re_search(request.word, response.body[k])
        /\ \A k \in DOMAIN MatchingSentences :
             match_index(request.word, MatchingSentences[k]) + 1
                \in WholeWordMatches(request.word, MatchingSentences[k])

----------------------------------------------------------------------------
(* The concurrent specification: two threads of the server each handle one *)
(* valid mutation request on the shared word_list and the shared file,     *)
(* with no lock.  A step is what one thread does between two points where  *)
(* the interpreter can switch threads: one list operation, the join, the   *)
(* open (which truncates the file), the write.  File writes succeed here:  *)
(* what goes wrong is to come from the interleaving alone.                 *)

Threads == {1, 2}
Other(t) == 3 - t

\* the mutation requests the two threads are given
ConcurrentRequests ==
    { Request("add_word", <<"b">>, None),
      Request("remove_similar_word", <<"a">>, None),
      Request("replace_word", <<"a">>, <<"A">>) }

\* the corpus files the concurrent server is started on
ConcurrentFiles == { <<"a">>, <<"a", " ", "b", " ", "a">> }

\* a thread about to run the handler of request r
Start(r) ==
    [endpoint |-> r.endpoint, word |-> r.word, new_word |-> r.new_word,
     pc |-> "start", count |-> 0, index |-> 0, data |-> <<>>, status |-> 0,
     alone |-> TRUE]

\* thread t is inside its handler
Busy(t) == threads[t].pc \notin {"start", "done"}

\* thread t moves to pc; it stays `alone` while the other thread is not
\* inside its handler
Goto(t, pc) == [threads[t] EXCEPT !.pc = pc, !.alone = @ /\ ~Busy(Other(t))]

Sequential == <<CONTEXT_SIZE, request, response, observed, write_failures>>

\* line 240: word_list.append(new_word)
add_word_append(t) ==
    /\ threads[t].endpoint = "add_word" /\ threads[t].pc = "start"
    /\ word_list' = list_append(word_list, threads[t].word)
    /\ threads' = [threads EXCEPT ![t] = Goto(t, "join")]
    /\ UNCHANGED <<disk, Sequential>>

\* line 276: the test `target_word in word_list` of the while loop
remove_test(t) ==
    /\ threads[t].endpoint = "remove_similar_word" /\ threads[t].pc \in {"start", "loop"}
    /\ threads' = [threads EXCEPT ![t] =
         IF threads[t].word \in Range(word_list)
         THEN Goto(t, "remove")
         ELSE Goto(t, "after_loop")]
    /\ UNCHANGED <<word_list, disk, Sequential>>

\* lines 277-278: word_list.remove(target_word), which raises ValueError
\* (answered with internal_error) when the word has gone meanwhile
remove_remove(t) ==
    /\ threads[t].endpoint = "remove_similar_word" /\ threads[t].pc = "remove"
    /\ IF threads[t].word \in Range(word_list)
       THEN /\ word_list' = list_remove(word_list, threads[t].word)
            /\ threads' = [threads EXCEPT ![t] =
                 [Goto(t, "loop") EXCEPT !.count = @ + 1]]
       ELSE /\ word_list' = word_list
            /\ threads' = [threads EXCEPT ![t] =
                 [Goto(t, "done") EXCEPT !.status = ERROR_MESSAGES["internal_error"]]]
    /\ UNCHANGED <<disk, Sequential>>

\* a handler that answers 200 without saving
remove_after_loop_unsaved(t) ==
    /\ threads[t].endpoint = "remove_similar_word" /\ threads[t].pc = "after_loop"
    /\ threads' = [threads EXCEPT ![t] =
         IF threads[t].count > 0
         THEN [Goto(t, "done") EXCEPT !.status = 200]
         ELSE [Goto(t, "done") EXCEPT !.status = 404]]
    /\ UNCHANGED <<word_list, disk, Sequential>>

\* lines 280-292: save when something was removed, else answer 404
remove_after_loop(t) ==
    /\ threads[t].endpoint = "remove_similar_word" /\ threads[t].pc = "after_loop"
    /\ threads' = [threads EXCEPT ![t] =
         IF threads[t].count > 0
         THEN Goto(t, "join")
         ELSE [Goto(t, "done") EXCEPT !.status = 404]]
    /\ UNCHANGED <<word_list, disk, Sequential>>

\* line 330: the list iterator yields word_list[index], or ends the loop when
\* index has reached the current length; line 331 compares in lower case
replace_next(t) ==
    /\ threads[t].endpoint = "replace_word" /\ threads[t].pc \in {"start", "iter"}
    /\ threads' = [threads EXCEPT ![t] =
         IF threads[t].index >= Len(word_list)
         THEN Goto(t, "join")
         ELSE IF lower(word_list[threads[t].index + 1]) = lower(threads[t].word)
         THEN Goto(t, "assign")
         ELSE [Goto(t, "iter") EXCEPT !.index = @ + 1]]
    /\ UNCHANGED <<word_list, disk, Sequential>>

\* lines 332-333: word_list[index] = new_word, which raises IndexError
\* (answered with internal_error) when the list has shrunk meanwhile
replace_assign(t) ==
    /\ threads[t].endpoint = "replace_word" /\ threads[t].pc = "assign"
    /\ IF threads[t].index < Len(word_list)
       THEN /\ word_list' = [word_list EXCEPT ![threads[t].index + 1] = threads[t].new_word]
            /\ threads' = [threads EXCEPT ![t] =
                 [Goto(t, "iter") EXCEPT !.index = @ + 1, !.count = @ + 1]]
       ELSE /\ word_list' = word_list
            /\ threads' = [threads EXCEPT ![t] =
                 [Goto(t, "done") EXCEPT !.status = ERROR_MESSAGES["internal_error"]]]
    /\ UNCHANGED <<disk, Sequential>>

\* line 72: the argument ' '.join(new_word_list) is evaluated
save_join(t) ==
    /\ threads[t].pc = "join"
    /\ threads' = [threads EXCEPT ![t] = [Goto(t, "open") EXCEPT !.data = join(word_list)]]
    /\ UNCHANGED <<word_list, disk, Sequential>>

\* line 32: open(file_path, 'w') truncates the file
file_open(t) ==
    /\ threads[t].pc = "open"
    /\ disk' = <<>>
    /\ threads' = [threads EXCEPT ![t] = Goto(t, "write")]
    /\ UNCHANGED <<word_list, Sequential>>

\* the status the handler answers once save_corpus has returned
status_after_save(t) ==
    IF threads[t].endpoint = "add_word" THEN 201
    ELSE IF threads[t].endpoint = "remove_similar_word" THEN 200
    ELSE IF threads[t].count > 0 THEN 200
    ELSE ERROR_MESSAGES["not_found_in_corpus"]

\* lines 33-34: the data goes to the file from offset 0 of this thread's own
\* file object, over whatever the file holds by then; the handler then
\* answers
file_write(t) ==
    /\ threads[t].pc = "write"
    /\ disk' = threads[t].data
                 \o SubSeq(disk, Len(threads[t].data) + 1, Len(disk))
    /\ threads' = [threads EXCEPT ![t] =
         [Goto(t, "done") EXCEPT !.status = status_after_save(t)]]
    /\ UNCHANGED <<word_list, Sequential>>

InitConcurrent ==
    /\ disk \in ConcurrentFiles
    /\ word_list = load_corpus(disk)
    /\ CONTEXT_SIZE = 1
    /\ request = NoRequest
    /\ response = Reply(0, "none", <<>>, 0)
    /\ observed = NothingObserved
    /\ write_failures = 0
    /\ threads \in [Threads -> {Start(r) : r \in ConcurrentRequests}]

NextConcurrent ==
    \/ \E t \in Threads : add_word_append(t)
    \/ \E t \in Threads : remove_test(t)
    \/ \E t \in Threads : remove_remove(t)
    \/ \E t \in Threads : remove_after_loop(t)
    \/ \E t \in Threads : replace_next(t)
    \/ \E t \in Threads : replace_assign(t)
    \/ \E t \in Threads : save_join(t)
    \/ \E t \in Threads : file_open(t)
    \/ \E t \in Threads : file_write(t)

SpecConcurrent == InitConcurrent /\ [][NextConcurrent]_vars

\* both handlers have answered
AllDone == \A t \in Threads : threads[t].pc = "done"

\* the tokens of l with single spaces between them, built from the right
RECURSIVE SpaceJoined(_)
SpaceJoined(l) ==
    IF l = <<>> THEN <<>>
    ELSE IF Len(l) = 1 THEN l[1]
    ELSE SpaceJoined(SubSeq(l, 1, Len(l) - 1)) \o <<" ">> \o l[Len(l)]

\* C8: a lost update needs the interleaving.  When the two handlers ran one
\* after the other (neither took a step while the other was inside its
\* handler), the file equals the space-join of the final corpus once both
\* have answered; the state C8_LostUpdate, where both have answered with
\* success and the file differs from that join, is reached when their steps
\* interleave.
C8_SerialRunsStayInSync ==
    AllDone /\ (\A t \in Threads : threads[t].alone) =>
        disk = SpaceJoined(word_list)

\* both requests answered with success, yet the file is not the join of the
\* final in-memory corpus
C8_LostUpdate ==
    /\ AllDone
    /\ \A t \in Threads : threads[t].status \in {200, 201}
    /\ disk # SpaceJoined(word_list)

====
